---- MODULE Spec2Model ----
(***************************************************************************)
(* Batch review of MCQ files against a remote inference service.           *)
(*   checkByAI.py      thread pool + threading.Semaphore      ("thread")   *)
(*   checkByAIV1.py    asyncio tasks + asyncio.Semaphore      ("async")    *)
(*   proofread_mcqs.py asyncio tasks + gather                 ("proofread")*)
(* Names (file stems, disease values, output names) are sequences of       *)
(* tokens; a token is one character or a run of word characters.           *)
(***************************************************************************)
EXTENDS Integers, Sequences, FiniteSets, TLC

\* ---------------------------------------------------------------- bounds
\* files in the batch; permits of the semaphore (the programs set 10; the
\* model takes fewer permits than files so that the semaphore is contended);
\* chunks json.dump writes; staging files the directory can hold
NumItems == 2
MAX_CONCURRENT == 1
Chunks == 2
MaxTmp == 3
\* paths in the list the remote sorter returns
MaxSorted == 3

\* ------------------------------------------------------ program constants
MAX_RETRIES == 4
\* BACKOFF_FACTOR = 1.5 and RATE_LIMIT_SECONDS = 0.1 as fractions
BACKOFF_NUM == 3
BACKOFF_DEN == 2
RATE_NUM == 1
RATE_DEN == 10
MaxNameLen == 200

\* the files main finds in the folder, in sorted order
Batch == 1..NumItems

VARIABLES
    variant,    \* which program runs
    files,      \* the input directory: item -> parsed content of its file
    pc,         \* position of each worker / task
    attempt,    \* call_deepseek_with_retries' local counter, per item
    calls,      \* number of remote calls issued for the item
    uni,        \* class shared by all responses of the item so far
    last,       \* the latest response the item's call received
    script,     \* per item, the responses the remote service may give to
                \* its next calls (<<>>: any response)
    slept,      \* per item, the delays its retry loop has slept, in order
    holds,      \* the item's worker is inside "with semaphore"
    sem,        \* free permits of the semaphore
    disease,    \* process_file's local "disease"
    result,     \* what the worker returned (or raised)
    mainpc,     \* position of the collecting coordinator
    abortedBy,  \* item whose collection raised out of main (0: none)
    handed,     \* per item, the records passed to atomic_write in order
    saved,      \* items whose atomic_write call returned normally
    fs,         \* output artifacts: name -> record
    wpc, wdir, wtmp, wreq,  \* one atomic_write call, step by step
    vpc,           \* sortByAI: validate_sorting is "ready" or has "returned"
    sorted_files,  \* the list of paths the remote sorter returned
    files_info,    \* the files read from the folder, in the order of the scan
    validated      \* what validate_sorting returned

vars == <<variant, files, pc, attempt, calls, uni, last, script, slept, holds, sem,
          disease, result, mainpc, abortedBy, handed, saved, fs,
          wpc, wdir, wtmp, wreq,
          vpc, sorted_files, files_info, validated>>
runVars == <<variant, files, pc, attempt, calls, uni, last, script, slept, holds, sem,
             disease, result, mainpc, abortedBy, handed, saved, fs>>
wVars == <<wpc, wdir, wtmp, wreq>>
sVars == <<vpc, sorted_files, files_info, validated>>

\* the items of the running batch
Items == DOMAIN pc

\* ------------------------------------------------------------ JSON values
Str(s) == [t |-> "str", s |-> s]
Num == [t |-> "num", s |-> <<>>]
List(s) == [t |-> "list", s |-> s]
Null == [t |-> "null", s |-> <<>>]
Absent == [t |-> "absent", s |-> <<>>]

\* Python truthiness of a JSON value
Truthy(v) == \/ v.t = "num"
             \/ v.t = "str" /\ v.s # <<>>

\* Python "a or b"
PyOr(v, w) == IF Truthy(v) THEN v ELSE w

Digits == <<"1", "2", "3", "4", "5">>
\* path.stem of the file of item i: "m i", or "review_m_k" when the file is
\* the output an earlier run left in the folder for "m k.json"
Stem(i) == IF files[i].of = 0
           THEN <<"m", " ", Digits[i]>>
           ELSE <<"review_", "m", "_", Digits[files[i].of]>>
FileName(i) == Stem(i) \o <<".json">>

\* ---------------------------------------------------------- safe_filename
NonWord == {" ", "/", "-", ".", ":"}
Kept == {"-", ".", " "}

SubChar(c) == IF c \in NonWord \ Kept THEN "_" ELSE c

RECURSIVE LStrip(_)
LStrip(s) == IF s # <<>> /\ Head(s) = " " THEN LStrip(Tail(s)) ELSE s

RECURSIVE RStrip(_)
RStrip(s) == IF s # <<>> /\ s[Len(s)] = " "
             THEN RStrip(SubSeq(s, 1, Len(s) - 1)) ELSE s

Strip(s) == RStrip(LStrip(s))

Truncate(s) == SubSeq(s, 1, IF Len(s) < MaxNameLen THEN Len(s) ELSE MaxNameLen)

safe_filename(s) ==
    LET subbed == [k \in 1..Len(s) |-> SubChar(s[k])]
        stripped == Strip(subbed)
        under == [k \in 1..Len(stripped) |->
                    IF stripped[k] = " " THEN "_" ELSE stripped[k]]
    IN Truncate(under)

OutName(s) == <<"review_">> \o safe_filename(s) \o <<".json">>

\* ------------------------------------------------------------ input files
\* parsed content of an input file: t = "bad" (not JSON), "list" (JSON whose
\* top level is not an object) or "obj"; mcqs = number of MCQs in the file
File(t, d, n) == [t |-> t, disease |-> d, mcqs |-> n, of |-> 0]
\* the record an earlier run wrote for "m k.json": an object with the
\* disease and source_filename keys and no "mcqs" key
ReviewOf(k) == [t |-> "obj", disease |-> Str(<<"m", " ", Digits[k]>>),
                mcqs |-> 0, of |-> k]
PlainFile == File("obj", Absent, 1)
OtherName == <<"m", "/", "1">>
FileContents == { PlainFile,
                  File("bad", Absent, 0),
                  File("list", Absent, 0),
                  File("obj", Str(OtherName), 1),
                  File("obj", Num, 1),
                  File("obj", Absent, 0) }

\* the batches explored: one file of any content among plain files
Batches == { [i \in Batch |-> IF i = k THEN c ELSE PlainFile] :
                k \in Batch, c \in FileContents }

\* ------------------------------------------------------- remote responses
\* c: "ok" (HTTP 2xx), "h4xx", "h5xx", "transport" (timeout / connection)
\* body of a 2xx: "obj" (content is a JSON object, with optional disease and
\* source_filename keys), "raw" (content is text, not JSON), "empty",
\* "nondict" (content is a JSON list or number), "badjson" (the HTTP body is
\* declared as JSON but does not parse), "badctype" (the HTTP body is not
\* JSON and not declared as JSON)
Resp(c, b, d, s) == [c |-> c, body |-> b, disease |-> d, src |-> s]
RemoteSrc == Str(<<"x", ".json">>)
Outcomes == { Resp("h4xx", "-", Absent, Absent),
              Resp("h5xx", "-", Absent, Absent),
              Resp("transport", "-", Absent, Absent),
              Resp("ok", "obj", Absent, Absent),
              Resp("ok", "obj", Str(OtherName), Absent),
              Resp("ok", "obj", Num, Absent),
              Resp("ok", "obj", Null, Absent),
              Resp("ok", "obj", Absent, RemoteSrc),
              Resp("ok", "raw", Absent, Absent),
              Resp("ok", "empty", Absent, Absent),
              Resp("ok", "nondict", Absent, Absent),
              Resp("ok", "badjson", Absent, Absent),
              Resp("ok", "badctype", Absent, Absent) }

\* no response yet
NoResp == Resp("none", "-", Absent, Absent)

\* what the remote service may answer to a call: one of the responses
\* scripted for it if a script is set, any response otherwise
Offered(q) == IF q = <<>> THEN Outcomes ELSE Head(q)
Rest(q) == IF q = <<>> THEN q ELSE Tail(q)

\* ----------------------------------------------------------------- records
Rec(d, src, kind, err) == [disease |-> d, source |-> src, kind |-> kind, err |-> err]
NoResult == Rec(Null, Null, "none", "-")
\* the worker raised instead of returning
Raised == Rec(Null, Null, "exception", "-")
ErrRec(d, i, err) == Rec(d, Str(FileName(i)), "error", err)

\* class shared by all the responses an item has received
Uni(u, c) == IF u = "none" \/ u = c THEN c ELSE "mixed"

\* --------------------------------------------- call_deepseek_with_retries
RECURSIVE Pow(_, _)
Pow(b, k) == IF k = 0 THEN 1 ELSE b * Pow(b, k - 1)

\* delays are counted in units of 1 / DelayDen seconds, in which
\* RATE_LIMIT_SECONDS and every BACKOFF_FACTOR ** k with k <= MaxExp are whole
MaxExp == MAX_RETRIES + 1
DelayDen == RATE_DEN * Pow(BACKOFF_DEN, MaxExp)

\* variant of BackoffDelay: the exponent is the counter before its increment
BackoffDelayBeforeIncrement(a) ==
    Pow(BACKOFF_NUM, a - 1) * Pow(BACKOFF_DEN, MaxExp - (a - 1)) * RATE_DEN
    + RATE_NUM * Pow(BACKOFF_DEN, MaxExp)

\* (BACKOFF_FACTOR ** attempt) + RATE_LIMIT_SECONDS, attempt already incremented
BackoffDelay(a) ==
    Pow(BACKOFF_NUM, a) * Pow(BACKOFF_DEN, MaxExp - a) * RATE_DEN
    + RATE_NUM * Pow(BACKOFF_DEN, MaxExp)

\* one iteration of the while loop, given the response of session.post:
\* act = "return" | "retry" | "raise"; held = the permit is kept while sleeping
StepRes(act, a, err, held) == [act |-> act, attempt |-> a, err |-> err, held |-> held]

\* variant of T_Step: the 5xx retry guard admits attempt = MAX_RETRIES
T_StepOffByOne(a, o) ==
    CASE o.c = "ok" ->
            IF o.body \in {"badjson", "badctype"}
            THEN StepRes("raise", a, "badjson", TRUE)
            ELSE StepRes("return", a, "-", TRUE)
      [] o.c = "h5xx" ->
            IF a <= MAX_RETRIES
            THEN StepRes("retry", a + 1, "-", TRUE)
            ELSE StepRes("raise", a, "http5xx", TRUE)
      [] o.c = "h4xx" -> StepRes("raise", a, "http4xx", TRUE)
      [] OTHER ->
            IF a < MAX_RETRIES
            THEN StepRes("retry", a + 1, "-", TRUE)
            ELSE StepRes("raise", a, "transport", TRUE)

\* variant of T_Step: every status >= 400 takes the retry branch
T_StepRetry4xx(a, o) ==
    CASE o.c = "ok" ->
            IF o.body \in {"badjson", "badctype"}
            THEN StepRes("raise", a, "badjson", TRUE)
            ELSE StepRes("return", a, "-", TRUE)
      [] o.c \in {"h5xx", "h4xx"} ->
            IF a < MAX_RETRIES
            THEN StepRes("retry", a + 1, "-", TRUE)
            ELSE StepRes("raise", a, IF o.c = "h5xx" THEN "http5xx" ELSE "http4xx", TRUE)
      [] OTHER ->
            IF a < MAX_RETRIES
            THEN StepRes("retry", a + 1, "-", TRUE)
            ELSE StepRes("raise", a, "transport", TRUE)

T_Step(a, o) ==
    CASE o.c = "ok" ->
            IF o.body \in {"badjson", "badctype"}
            THEN StepRes("raise", a, "badjson", TRUE)
            ELSE StepRes("return", a, "-", TRUE)
      [] o.c = "h5xx" ->
            IF a < MAX_RETRIES
            THEN StepRes("retry", a + 1, "-", TRUE)
            ELSE StepRes("raise", a, "http5xx", TRUE)
      [] o.c = "h4xx" -> StepRes("raise", a, "http4xx", TRUE)
      [] OTHER ->
            IF a < MAX_RETRIES
            THEN StepRes("retry", a + 1, "-", TRUE)
            ELSE StepRes("raise", a, "transport", TRUE)

\* variant of A_Except: the except clause re-raises without retrying
A_ExceptGivesUp(a, err) == StepRes("raise", a, err, FALSE)

\* the except clause of the async variant: aiohttp.ClientError covers the
\* ClientResponseError raised for a status >= 400 and ContentTypeError
A_Except(a, err) ==
    IF a < MAX_RETRIES
    THEN StepRes("retry", a + 1, "-", FALSE)
    ELSE StepRes("raise", a, err, FALSE)

\* variant of A_Step: a 2xx answer is posted again while retries remain
A_StepRetriesSuccess(a, o) ==
    CASE o.c = "ok" ->
            IF a < MAX_RETRIES
            THEN StepRes("retry", a + 1, "-", FALSE)
            ELSE StepRes("return", a, "-", FALSE)
      [] o.c = "h5xx" ->
            IF a < MAX_RETRIES
            THEN StepRes("retry", a + 1, "-", TRUE)
            ELSE A_Except(a, "http5xx")
      [] o.c = "h4xx" -> A_Except(a, "http4xx")
      [] OTHER -> A_Except(a, "transport")

A_Step(a, o) ==
    CASE o.c = "ok" ->
            IF o.body = "badjson" THEN StepRes("raise", a, "badjson", FALSE)
            ELSE IF o.body = "badctype" THEN A_Except(a, "badjson")
            ELSE StepRes("return", a, "-", FALSE)
      [] o.c = "h5xx" ->
            IF a < MAX_RETRIES
            THEN StepRes("retry", a + 1, "-", TRUE)
            ELSE A_Except(a, "http5xx")
      [] o.c = "h4xx" -> A_Except(a, "http4xx")
      [] OTHER -> A_Except(a, "transport")

\* ------------------------------------------- process_file after the call
\* variant of BuildResult: text that is not JSON gives an error record
BuildResultRawIsError(d, i, o) ==
    CASE o.body = "empty" -> ErrRec(d, i, "empty")
      [] o.body = "raw" -> ErrRec(d, i, "raw")
      [] o.body = "nondict" -> ErrRec(d, i, "typeerror")
      [] OTHER -> Rec(IF o.disease = Absent THEN d ELSE o.disease,
                      IF o.src = Absent THEN Str(FileName(i)) ELSE o.src,
                      "structured", "-")

\* the record built from a returned 2xx response
BuildResult(d, i, o) ==
    CASE o.body = "empty" -> ErrRec(d, i, "empty")
      [] o.body = "raw" -> Rec(d, Str(FileName(i)), "raw", "-")
      [] o.body = "nondict" -> ErrRec(d, i, "typeerror")
      [] OTHER -> Rec(IF o.disease = Absent THEN d ELSE o.disease,
                      IF o.src = Absent THEN Str(FileName(i)) ELSE o.src,
                      "structured", "-")

\* ------------------------------------------------------------ main's loop
\* the record main works with for a finished future
T_FutResult(r, i) == IF r.kind = "exception" THEN ErrRec(Null, i, "exception") ELSE r

\* result.get("disease") or path.stem
NameValue(r, i) == PyOr(r.disease, Str(Stem(i)))

\* os.replace of a complete staged file
Put(f, name, data) ==
    [n \in DOMAIN f \cup {name} |-> IF n = name THEN data ELSE f[n]]

\* ------------------------------------------------ process_file's loading
\* next = "settle" (the worker returns rec, or raises when rec = Raised) or
\* "call" (the worker goes on to the remote call with identity d)
LoadRes(next, rec, d) == [next |-> next, rec |-> rec, disease |-> d]

T_Load(f, i) ==
    CASE f.t = "bad" -> LoadRes("settle", ErrRec(Null, i, "read_error"), Null)
      [] f.t = "list" -> LoadRes("settle", Raised, Null)
      [] OTHER -> LoadRes("call", NoResult, PyOr(f.disease, Str(Stem(i))))

A_Load(f, i) ==
    CASE f.t = "bad" -> LoadRes("settle", ErrRec(Null, i, "read_error"), Null)
      [] f.t = "list" -> LoadRes("settle", Raised, Null)
      [] f.mcqs = 0 ->
            LoadRes("settle", ErrRec(PyOr(f.disease, Str(Stem(i))), i, "no_mcqs"), Null)
      [] OTHER -> LoadRes("call", NoResult, PyOr(f.disease, Str(Stem(i))))

\* ------------------------------------------------------------------- state
InFlight == {i \in Items : pc[i] = "inflight"}
Running == {i \in Items : pc[i] \in {"acquire", "inflight", "backoff"}}
Settled(i) == pc[i] \in {"done", "collected"}
EmptyDir == [n \in {} |-> NoResult]

\* the state when main is entered with the files S in the folder and a
\* semaphore (and pool) of n permits
FreshN(S, n) ==
    /\ pc = [i \in S |-> "queued"]
    /\ attempt = [i \in S |-> 0]
    /\ calls = [i \in S |-> 0]
    /\ uni = [i \in S |-> "none"]
    /\ last = [i \in S |-> NoResp]
    /\ slept = [i \in S |-> <<>>]
    /\ holds = [i \in S |-> FALSE]
    /\ sem = n
    /\ disease = [i \in S |-> Null]
    /\ result = [i \in S |-> NoResult]
    /\ mainpc = "start"
    /\ abortedBy = 0
    /\ handed = [i \in S |-> <<>>]
    /\ saved = {}
    /\ fs = EmptyDir

Fresh(S) == FreshN(S, MAX_CONCURRENT)

InitRun(v) ==
    /\ variant = v
    /\ files \in Batches
    /\ script = [i \in Batch |-> <<>>]
    /\ Fresh(Batch)

InitW0 ==
    /\ wpc = "idle"
    /\ wdir = EmptyDir
    /\ wtmp = <<>>
    /\ wreq = [path |-> <<>>, data |-> NoResult, had |-> FALSE,
               before |-> [data |-> NoResult, len |-> 0]]

\* validate_sorting has not been called
InitV0 ==
    /\ vpc = "idle"
    /\ sorted_files = <<>>
    /\ files_info = <<>>
    /\ validated = <<>>

\* the permits the semaphore was created with, which is also the size of
\* the thread pool
Permits == sem + Cardinality({i \in Items : holds[i]})

\* main has passed the folder check and created the workers / tasks
Submitted == mainpc \in {"collect", "aborted", "cancelled", "done"}

\* main's folder check: the folder is there and the run starts, or it is
\* missing and main ends at once
MainBegin ==
    /\ mainpc = "start"
    /\ \E exists \in BOOLEAN :
         mainpc' = IF exists THEN "collect" ELSE "nofolder"
    /\ UNCHANGED <<variant, files, pc, attempt, calls, uni, last, script, slept, holds,
                   sem, disease, result, abortedBy, handed, saved, fs>>
    /\ UNCHANGED <<wVars, sVars>>

\* the exit status of the process (-1 while it runs): main returning gives 0,
\* an exception leaving main or sys.exit with a message gives 1
ExitCode ==
    CASE mainpc = "done" -> 0
      [] mainpc = "aborted" -> 1
      [] mainpc = "nofolder" -> IF variant = "proofread" THEN 1 ELSE 0
      [] OTHER -> -1

\* variant of Finish: the permit is not given back when the worker ends
FinishKeepsPermit(i, r) ==
    /\ result' = [result EXCEPT ![i] = r]
    /\ pc' = [pc EXCEPT ![i] = "done"]
    /\ sem' = sem
    /\ holds' = [holds EXCEPT ![i] = FALSE]

\* the worker of item i ends with record r (a return or a raise)
Finish(i, r) ==
    /\ result' = [result EXCEPT ![i] = r]
    /\ pc' = [pc EXCEPT ![i] = "done"]
    /\ sem' = IF holds[i] THEN sem + 1 ELSE sem
    /\ holds' = [holds EXCEPT ![i] = FALSE]

\* ------------------------------------------------- checkByAI.py (threads)
\* checkByAI.main, lines 252-254
T_Begin ==
    /\ variant = "thread"
    /\ MainBegin

\* a pool thread takes the next submitted file and runs process_file up to
\* the semaphore
T_Start(i) ==
    /\ variant = "thread"
    /\ Submitted
    /\ pc[i] = "queued"
    /\ \A j \in Items : j < i => pc[j] # "queued"
    /\ Cardinality(Running) < Permits
    /\ LET l == T_Load(files[i], i) IN
         IF l.next = "settle"
         THEN /\ Finish(i, l.rec)
              /\ UNCHANGED disease
         ELSE /\ pc' = [pc EXCEPT ![i] = "acquire"]
              /\ disease' = [disease EXCEPT ![i] = l.disease]
              /\ UNCHANGED <<result, sem, holds>>
    /\ UNCHANGED <<variant, files, attempt, calls, uni, last, script, slept, mainpc, abortedBy, handed, saved, fs>>
    /\ UNCHANGED <<wVars, sVars>>

\* "with semaphore:", then the first session.post
T_Acquire(i) ==
    /\ variant = "thread"
    /\ pc[i] = "acquire"
    /\ sem > 0
    /\ sem' = sem - 1
    /\ holds' = [holds EXCEPT ![i] = TRUE]
    /\ pc' = [pc EXCEPT ![i] = "inflight"]
    /\ calls' = [calls EXCEPT ![i] = @ + 1]
    /\ UNCHANGED <<variant, files, attempt, uni, last, script, slept, disease, result, mainpc, abortedBy, handed, saved, fs>>
    /\ UNCHANGED <<wVars, sVars>>

\* session.post answers; the loop returns, raises or starts its sleep
T_Response(i) ==
    /\ variant = "thread"
    /\ pc[i] = "inflight"
    /\ \E o \in Offered(script[i]) :
         LET st == T_Step(attempt[i], o) IN
           /\ uni' = [uni EXCEPT ![i] = Uni(@, o.c)]
           /\ last' = [last EXCEPT ![i] = o]
           /\ script' = [script EXCEPT ![i] = Rest(@)]
           /\ attempt' = [attempt EXCEPT ![i] = st.attempt]
           /\ CASE st.act = "return" -> Finish(i, BuildResult(disease[i], i, o))
                [] st.act = "raise" -> Finish(i, ErrRec(disease[i], i, st.err))
                [] OTHER -> /\ pc' = [pc EXCEPT ![i] = "backoff"]
                            /\ UNCHANGED <<result, sem, holds>>
           /\ slept' = IF st.act = "retry"
                       THEN [slept EXCEPT ![i] = Append(@, BackoffDelay(st.attempt))]
                       ELSE slept
    /\ UNCHANGED <<variant, files, calls, disease, mainpc, abortedBy, handed, saved, fs>>
    /\ UNCHANGED <<wVars, sVars>>

\* variant of LoopCond: the loop ends one iteration early
LoopCondStrict(a) == a < MAX_RETRIES

\* the loop condition of call_deepseek_with_retries
LoopCond(a) == a <= MAX_RETRIES

\* variant of T_Wake: the attempt counter is one module-level variable
T_WakeSharedCounter(i) ==
    /\ variant = "thread"
    /\ pc[i] = "backoff"
    /\ IF LoopCond(attempt[i])
       THEN /\ pc' = [pc EXCEPT ![i] = "inflight"]
            /\ calls' = [calls EXCEPT ![i] = @ + 1]
            /\ UNCHANGED <<result, sem, holds>>
       ELSE /\ Finish(i, ErrRec(disease[i], i, "empty"))
            /\ UNCHANGED calls
    /\ attempt' = [j \in Items |-> attempt[i]]
    /\ UNCHANGED <<variant, files, uni, last, script, slept, disease,
                   mainpc, abortedBy, handed, saved, fs>>
    /\ UNCHANGED <<wVars, sVars>>

\* time.sleep ends and "continue" goes to the loop condition: the loop posts
\* again, or it ends, the function returns None and process_file, which
\* finds no content in None, returns the "Empty response" record
T_Wake(i) ==
    /\ variant = "thread"
    /\ pc[i] = "backoff"
    /\ IF LoopCond(attempt[i])
       THEN /\ pc' = [pc EXCEPT ![i] = "inflight"]
            /\ calls' = [calls EXCEPT ![i] = @ + 1]
            /\ UNCHANGED <<result, sem, holds>>
       ELSE /\ Finish(i, ErrRec(disease[i], i, "empty"))
            /\ UNCHANGED calls
    /\ UNCHANGED <<variant, files, attempt, uni, last, script, slept, disease,
                   mainpc, abortedBy, handed, saved, fs>>
    /\ UNCHANGED <<wVars, sVars>>

\* what one round of the collection loop does with a finished worker:
\* act = "write" (rec goes to atomic_write under name), "abort" (an exception
\* leaves the loop and main) or "skip" (logged, nothing written)
ColRes(act, rec, name) == [act |-> act, rec |-> rec, name |-> name]

\* variant of T_CollectRes: fut.result() is not guarded by try/except
T_CollectResNoTry(r, i) ==
    IF r.kind = "exception" THEN ColRes("abort", r, <<>>)
    ELSE LET nv == NameValue(r, i)
         IN IF nv.t # "str"
            THEN ColRes("abort", r, <<>>)
            ELSE ColRes("write", r, OutName(nv.s))

\* checkByAI.main, lines 266-284
T_CollectRes(r, i) ==
    LET rr == T_FutResult(r, i)
        nv == NameValue(rr, i)
    IN IF nv.t # "str"
       THEN ColRes("abort", rr, <<>>)
       ELSE ColRes("write", rr, OutName(nv.s))

\* variant of A_CollectRes: error records are logged and not written
A_CollectResDropErrors(r, i) ==
    IF r.kind \in {"exception", "error"} THEN ColRes("skip", r, <<>>)
    ELSE LET nv == NameValue(r, i)
         IN IF nv.t # "str"
            THEN ColRes("skip", r, <<>>)
            ELSE ColRes("write", r, OutName(nv.s))

\* checkByAIV1.process_files_async, lines 289-307
A_CollectRes(r, i) ==
    IF r.kind = "exception" THEN ColRes("skip", r, <<>>)
    ELSE LET nv == NameValue(r, i)
         IN IF nv.t # "str"
            THEN ColRes("skip", r, <<>>)
            ELSE ColRes("write", r, OutName(nv.s))

\* variant of Collect: an exception of atomic_write leaves the loop
CollectWriteFailAborts(i, c) ==
    /\ pc' = [pc EXCEPT ![i] = "collected"]
    /\ CASE c.act = "abort" ->
               /\ mainpc' = "aborted"
               /\ abortedBy' = i
               /\ UNCHANGED <<handed, saved, fs>>
         [] c.act = "skip" ->
               UNCHANGED <<mainpc, abortedBy, handed, saved, fs>>
         [] OTHER ->
               /\ handed' = [handed EXCEPT ![i] = Append(@, c.rec)]
               /\ \E ok \in BOOLEAN :
                    /\ fs' = IF ok THEN Put(fs, c.name, c.rec) ELSE fs
                    /\ saved' = IF ok THEN saved \cup {i} ELSE saved
                    /\ mainpc' = IF ok THEN mainpc ELSE "aborted"
                    /\ abortedBy' = IF ok THEN abortedBy ELSE i
    /\ UNCHANGED <<variant, files, attempt, calls, uni, last, script, slept, holds, sem, disease, result>>
    /\ UNCHANGED <<wVars, sVars>>

\* atomic_write as main sees it: it returns (the artifact is in place) or
\* raises (the artifact is untouched; main logs and goes on)
Collect(i, c) ==
    /\ pc' = [pc EXCEPT ![i] = "collected"]
    /\ CASE c.act = "abort" ->
               /\ mainpc' = "aborted"
               /\ abortedBy' = i
               /\ UNCHANGED <<handed, saved, fs>>
         [] c.act = "skip" ->
               UNCHANGED <<mainpc, abortedBy, handed, saved, fs>>
         [] OTHER ->
               /\ handed' = [handed EXCEPT ![i] = Append(@, c.rec)]
               /\ \E ok \in BOOLEAN :
                    /\ fs' = IF ok THEN Put(fs, c.name, c.rec) ELSE fs
                    /\ saved' = IF ok THEN saved \cup {i} ELSE saved
               /\ UNCHANGED <<mainpc, abortedBy>>
    /\ UNCHANGED <<variant, files, attempt, calls, uni, last, script, slept, holds, sem, disease, result>>
    /\ UNCHANGED <<wVars, sVars>>

\* variant of T_Collect: the futures are taken in the order of submission
T_CollectInOrder(i) ==
    /\ variant = "thread"
    /\ mainpc = "collect"
    /\ pc[i] = "done"
    /\ \A j \in Items : j < i => pc[j] = "collected"
    /\ Collect(i, T_CollectRes(result[i], i))

\* one round of "for fut in as_completed(...)"
T_Collect(i) ==
    /\ variant = "thread"
    /\ mainpc = "collect"
    /\ pc[i] = "done"
    /\ Collect(i, T_CollectRes(result[i], i))

\* every item has been collected
Finished ==
    /\ mainpc = "collect"
    /\ \A i \in Items : pc[i] = "collected"
    /\ mainpc' = "done"
    /\ UNCHANGED <<variant, files, pc, attempt, calls, uni, last, script, slept, holds, sem, disease,
                   result, abortedBy, handed, saved, fs>>
    /\ UNCHANGED <<wVars, sVars>>

\* the loop is exhausted, the pool is shut down: "All files processed."
T_Finish ==
    /\ variant = "thread"
    /\ Finished

NextT == \/ T_Begin
         \/ \E i \in Items : T_Start(i)
         \/ \E i \in Items : T_Acquire(i)
         \/ \E i \in Items : T_Response(i)
         \/ \E i \in Items : T_Wake(i)
         \/ \E i \in Items : T_Collect(i)
         \/ T_Finish

InitT == InitRun("thread") /\ InitW0 /\ InitV0
SpecT == InitT /\ [][NextT]_vars

\* ------------------------------------------------ checkByAIV1.py (asyncio)
\* checkByAIV1.main, lines 311-313
A_Begin ==
    /\ variant = "async"
    /\ MainBegin

\* a task runs process_file_async up to call_deepseek_with_retries
A_Start(i) ==
    /\ variant = "async"
    /\ Submitted
    /\ pc[i] = "queued"
    /\ LET l == A_Load(files[i], i) IN
         IF l.next = "settle"
         THEN /\ Finish(i, l.rec)
              /\ UNCHANGED disease
         ELSE /\ pc' = [pc EXCEPT ![i] = "acquire"]
              /\ disease' = [disease EXCEPT ![i] = l.disease]
              /\ UNCHANGED <<result, sem, holds>>
    /\ UNCHANGED <<variant, files, attempt, calls, uni, last, script, slept, mainpc, abortedBy, handed, saved, fs>>
    /\ UNCHANGED <<wVars, sVars>>

\* variant of A_Acquire: session.post is issued without the semaphore
A_AcquireNoSem(i) ==
    /\ variant = "async"
    /\ pc[i] = "acquire"
    /\ sem' = sem - 1
    /\ holds' = [holds EXCEPT ![i] = TRUE]
    /\ pc' = [pc EXCEPT ![i] = "inflight"]
    /\ calls' = [calls EXCEPT ![i] = @ + 1]
    /\ UNCHANGED <<variant, files, attempt, uni, last, script, slept, disease, result, mainpc, abortedBy, handed, saved, fs>>
    /\ UNCHANGED <<wVars, sVars>>

\* "async with semaphore:", then session.post
A_Acquire(i) ==
    /\ variant = "async"
    /\ pc[i] = "acquire"
    /\ sem > 0
    /\ sem' = sem - 1
    /\ holds' = [holds EXCEPT ![i] = TRUE]
    /\ pc' = [pc EXCEPT ![i] = "inflight"]
    /\ calls' = [calls EXCEPT ![i] = @ + 1]
    /\ UNCHANGED <<variant, files, attempt, uni, last, script, slept, disease, result, mainpc, abortedBy, handed, saved, fs>>
    /\ UNCHANGED <<wVars, sVars>>

\* the response arrives; the loop returns, raises or starts asyncio.sleep,
\* inside the "async with" (5xx) or after leaving it (except clause)
A_Response(i) ==
    /\ variant = "async"
    /\ pc[i] = "inflight"
    /\ \E o \in Offered(script[i]) :
         LET st == A_Step(attempt[i], o) IN
           /\ uni' = [uni EXCEPT ![i] = Uni(@, o.c)]
           /\ last' = [last EXCEPT ![i] = o]
           /\ script' = [script EXCEPT ![i] = Rest(@)]
           /\ attempt' = [attempt EXCEPT ![i] = st.attempt]
           /\ CASE st.act = "return" -> Finish(i, BuildResult(disease[i], i, o))
                [] st.act = "raise" -> Finish(i, ErrRec(disease[i], i, st.err))
                [] OTHER ->
                     /\ pc' = [pc EXCEPT ![i] = "backoff"]
                     /\ holds' = [holds EXCEPT ![i] = st.held]
                     /\ sem' = IF st.held THEN sem ELSE sem + 1
                     /\ UNCHANGED result
           /\ slept' = IF st.act = "retry"
                       THEN [slept EXCEPT ![i] = Append(@, BackoffDelay(st.attempt))]
                       ELSE slept
    /\ UNCHANGED <<variant, files, calls, disease, mainpc, abortedBy, handed, saved, fs>>
    /\ UNCHANGED <<wVars, sVars>>

\* variant of A_Wake: the permit taken before a 5xx is never given back
A_WakeKeepsPermit(i) ==
    /\ variant = "async"
    /\ pc[i] = "backoff"
    /\ IF LoopCond(attempt[i])
       THEN /\ pc' = [pc EXCEPT ![i] = "acquire"]
            /\ UNCHANGED <<holds, sem, result>>
       ELSE Finish(i, ErrRec(disease[i], i, "max_retries"))
    /\ UNCHANGED <<variant, files, attempt, calls, uni, last, script, slept,
                   disease, mainpc, abortedBy, handed, saved, fs>>
    /\ UNCHANGED <<wVars, sVars>>

\* asyncio.sleep ends; "continue" leaves the "async with" if still inside and
\* goes to the loop condition: the loop takes the semaphore again, or it ends
\* and line 212 raises "Max retries exceeded", which process_file_async turns
\* into an error record
A_Wake(i) ==
    /\ variant = "async"
    /\ pc[i] = "backoff"
    /\ IF LoopCond(attempt[i])
       THEN /\ pc' = [pc EXCEPT ![i] = "acquire"]
            /\ sem' = IF holds[i] THEN sem + 1 ELSE sem
            /\ holds' = [holds EXCEPT ![i] = FALSE]
            /\ UNCHANGED result
       ELSE Finish(i, ErrRec(disease[i], i, "max_retries"))
    /\ UNCHANGED <<variant, files, attempt, calls, uni, last, script, slept, disease,
                   mainpc, abortedBy, handed, saved, fs>>
    /\ UNCHANGED <<wVars, sVars>>

\* one round of "for task, path in tasks": the tasks are awaited in list order
A_Collect(i) ==
    /\ variant = "async"
    /\ mainpc = "collect"
    /\ pc[i] = "done"
    /\ \A j \in Items : j < i => pc[j] = "collected"
    /\ Collect(i, A_CollectRes(result[i], i))

\* the session is closed, asyncio.run returns: "All files processed
\* asynchronously."
A_Finish ==
    /\ variant = "async"
    /\ Finished

NextA == \/ A_Begin
         \/ \E i \in Items : A_Start(i)
         \/ \E i \in Items : A_Acquire(i)
         \/ \E i \in Items : A_Response(i)
         \/ \E i \in Items : A_Wake(i)
         \/ \E i \in Items : A_Collect(i)
         \/ A_Finish

InitA == InitRun("async") /\ InitW0 /\ InitV0
SpecA == InitA /\ [][NextA]_vars

\* --------------------------------------------- proofread_mcqs.py (asyncio)
\* an item is one loaded MCQ. What ask_openai and the rest of worker make of
\* one call: "clean" (a JSON object with no errors), "faulty" (a JSON object
\* listing errors), "fail" (the call raises), "notjson" (the answer is not
\* JSON), "nondict" (the answer is JSON but not an object)
P_Outcomes == {"clean", "faulty", "fail", "notjson", "nondict"}
ReportName == <<"proofread_report", ".json">>

P_Result(o, i) ==
    CASE o = "clean" -> Rec(Null, Str(FileName(i)), "clean", "-")
      [] o = "faulty" -> Rec(Null, Str(FileName(i)), "faulty", "-")
      [] o \in {"fail", "notjson"} -> Rec(Null, Str(FileName(i)), "faulty", "call_failed")
      [] OTHER -> Raised

\* proofread_mcqs.main, lines 128-130
P_Begin ==
    /\ variant = "proofread"
    /\ MainBegin

\* worker: "async with sem:", then ask_openai is awaited
P_Start(i) ==
    /\ variant = "proofread"
    /\ mainpc = "collect"
    /\ pc[i] = "queued"
    /\ sem > 0
    /\ sem' = sem - 1
    /\ holds' = [holds EXCEPT ![i] = TRUE]
    /\ pc' = [pc EXCEPT ![i] = "inflight"]
    /\ calls' = [calls EXCEPT ![i] = @ + 1]
    /\ UNCHANGED <<variant, files, attempt, uni, last, script, slept, disease, result, mainpc, abortedBy, handed, saved, fs>>
    /\ UNCHANGED <<wVars, sVars>>

\* ask_openai returns; worker adds the metadata and leaves the "async with"
P_Response(i) ==
    /\ variant = "proofread"
    /\ mainpc = "collect"
    /\ pc[i] = "inflight"
    /\ \E o \in P_Outcomes : Finish(i, P_Result(o, i))
    /\ UNCHANGED <<variant, files, attempt, calls, uni, last, script, slept, disease, mainpc, abortedBy, handed, saved, fs>>
    /\ UNCHANGED <<wVars, sVars>>

\* the report list main builds from results[k..]: one entry, held as its
\* "file" value, for each result with a non-empty "errors" list, in the order
\* of the results
RECURSIVE ReportFrom(_, _)
ReportFrom(res, k) ==
    IF k \notin DOMAIN res THEN <<>>
    ELSE (IF res[k].kind = "faulty" THEN res[k].source.s ELSE <<>>)
         \o ReportFrom(res, k + 1)

\* variant of P_Gather: every result is put in the report
P_GatherReportsAll ==
    /\ variant = "proofread"
    /\ mainpc = "collect"
    /\ \A i \in Items : pc[i] = "done" /\ result[i].kind # "exception"
    /\ pc' = [i \in Items |-> "collected"]
    /\ handed' = [i \in Items |-> <<result[i]>>]
    /\ fs' = Put(fs, ReportName,
                 Rec(Null, List(ReportFrom([i \in Items |->
                                              Rec(Null, result[i].source, "faulty", "-")], 1)),
                     "report", "-"))
    /\ mainpc' = "done"
    /\ UNCHANGED <<variant, files, attempt, calls, uni, last, script, slept, holds, sem, disease, result,
                   abortedBy, saved>>
    /\ UNCHANGED <<wVars, sVars>>

\* gather returns the results in task order; main builds the report and
\* writes it if it is not empty
P_Gather ==
    /\ variant = "proofread"
    /\ mainpc = "collect"
    /\ \A i \in Items : pc[i] = "done" /\ result[i].kind # "exception"
    /\ pc' = [i \in Items |-> "collected"]
    /\ handed' = [i \in Items |->
                    IF result[i].kind = "faulty" THEN <<result[i]>> ELSE <<>>]
    /\ fs' = IF ReportFrom(result, 1) # <<>>
             THEN Put(fs, ReportName,
                      Rec(Null, List(ReportFrom(result, 1)), "report", "-"))
             ELSE fs
    /\ mainpc' = "done"
    /\ UNCHANGED <<variant, files, attempt, calls, uni, last, script, slept, holds, sem, disease, result,
                   abortedBy, saved>>
    /\ UNCHANGED <<wVars, sVars>>

\* a worker raised: gather re-raises in main, asyncio.run cancels the rest
P_GatherRaise(i) ==
    /\ variant = "proofread"
    /\ mainpc = "collect"
    /\ pc[i] = "done"
    /\ result[i].kind = "exception"
    /\ mainpc' = "aborted"
    /\ abortedBy' = i
    /\ pc' = [j \in Items |-> IF pc[j] = "done" THEN "done" ELSE "cancelled"]
    /\ holds' = [j \in Items |-> FALSE]
    /\ sem' = sem + Cardinality({j \in Items : holds[j]})
    /\ UNCHANGED <<variant, files, attempt, calls, uni, last, script, slept, disease, result, handed, saved, fs>>
    /\ UNCHANGED <<wVars, sVars>>

NextP == \/ P_Begin
         \/ \E i \in Items : P_Start(i)
         \/ \E i \in Items : P_Response(i)
         \/ P_Gather
         \/ \E i \in Items : P_GatherRaise(i)

InitP == InitRun("proofread") /\ InitW0 /\ InitV0
SpecP == InitP /\ [][NextP]_vars

\* ------------------------------------------------------ the three programs
Variants == {"thread", "async", "proofread"}
Init == (\E v \in Variants : InitRun(v)) /\ InitW0 /\ InitV0
Next == NextT \/ NextA \/ NextP
Spec == Init /\ [][Next]_vars

\* ------------------------------- the two batch reviewers, fairly scheduled
\* threads and tasks that can take a step are eventually run, and every
\* remote call in flight is eventually answered or times out; each answer
\* is a result, a 400, a 500 or a transport error
OkPlain == Resp("ok", "obj", Absent, Absent)
H400 == Resp("h4xx", "-", Absent, Absent)
H500 == Resp("h5xx", "-", Absent, Absent)
Transport == Resp("transport", "-", Absent, Absent)
AnyClass == {OkPlain, H400, H500, Transport}

\* the batches whose first file is of any content
FirstBatches == {b \in Batches : \A i \in Batch \ {1} : b[i] = PlainFile}

InitB ==
    /\ variant \in {"thread", "async"}
    /\ files \in FirstBatches
    /\ script = [i \in Batch |-> [k \in 1..(1 + MAX_RETRIES) |-> AnyClass]]
    /\ Fresh(Batch)
    /\ InitW0
    /\ InitV0
NextB == NextT \/ NextA
SpecB == InitB /\ [][NextB]_vars /\ WF_vars(NextB)

\* ------------------------------------ a pool with a worker for every file
\* the semaphore and the pool have as many permits as there are files, so
\* that a later file can overtake an earlier one
InitI ==
    /\ variant \in {"thread", "async"}
    /\ files \in FirstBatches
    /\ script = [i \in Batch |-> [k \in 1..(1 + MAX_RETRIES) |-> AnyClass]]
    /\ FreshN(Batch, NumItems)
    /\ InitW0
    /\ InitV0
SpecI == InitI /\ [][NextB]_vars

\* -------------------------------------------- a second run over the folder
\* the outputs are written into the folder the inputs are read from (FOLDER,
\* lines 256 and 277): the folder holds the output of an earlier run for the
\* first file, which sorts after the "m" files
InitR ==
    /\ variant \in {"thread", "async"}
    /\ files = [i \in Batch |-> IF i = NumItems THEN ReviewOf(1) ELSE PlainFile]
    /\ script = [i \in Batch |-> [k \in 1..(1 + MAX_RETRIES) |-> AnyClass]]
    /\ Fresh(Batch)
    /\ InitW0
    /\ InitV0
SpecR == InitR /\ [][NextB]_vars

\* ------------------------------------------------ a run that is interrupted
\* KeyboardInterrupt is raised in the main thread while it collects: the
\* "with ThreadPoolExecutor" block is left through shutdown(wait=True), which
\* lets the workers run every submitted file to its end
T_Cancel ==
    /\ variant = "thread"
    /\ mainpc = "collect"
    /\ mainpc' = "cancelled"
    /\ UNCHANGED <<variant, files, pc, attempt, calls, uni, last, script, slept,
                   holds, sem, disease, result, abortedBy, handed, saved, fs>>
    /\ UNCHANGED <<wVars, sVars>>

\* KeyboardInterrupt stops asyncio.run: the main task and every task that
\* has not finished are cancelled, calls in flight included
A_Cancel ==
    /\ variant = "async"
    /\ mainpc = "collect"
    /\ mainpc' = "cancelled"
    /\ pc' = [j \in Items |-> IF Settled(j) THEN pc[j] ELSE "cancelled"]
    /\ holds' = [j \in Items |-> FALSE]
    /\ sem' = Permits
    /\ UNCHANGED <<variant, files, attempt, calls, uni, last, script, slept,
                   disease, result, abortedBy, handed, saved, fs>>
    /\ UNCHANGED <<wVars, sVars>>

NextC == NextB \/ T_Cancel \/ A_Cancel
SpecC == InitB /\ [][NextC]_vars

\* -------------------------------------- a batch against a scripted service
\* three files with MCQs and no disease field; the service answers item 1
\* with a result, item 2 with two 500s and then a result, item 3 with a 400
ScenarioItems == {1, 2, 3}
ScenarioScript == <<<<{OkPlain}>>, <<{H500}, {H500}, {OkPlain}>>, <<{H400}>>>>

InitE ==
    /\ variant \in {"thread", "async"}
    /\ files = [i \in ScenarioItems |-> PlainFile]
    /\ script = ScenarioScript
    /\ Fresh(ScenarioItems)
    /\ InitW0
    /\ InitV0
SpecE == InitE /\ [][NextB]_vars

\* ------------------------------------------------- atomic_write, stepwise
\* wdir is the output directory: name -> [data, len]; a file is complete when
\* all Chunks chunks of json.dump's output are in it. wtmp is the staging
\* file of the running call, wreq the call: its path, its data and what the
\* path held when the call began.
WFile(data, len) == [data |-> data, len |-> len]
WPaths == {OutName(Stem(1)), OutName(Stem(2))}
WData == {Rec(Str(Stem(1)), Str(FileName(1)), "structured", "-"),
          Rec(Str(Stem(1)), Str(FileName(1)), "error", "http5xx"),
          Rec(Str(Stem(2)), Str(FileName(2)), "raw", "-")}
NoFile == WFile(NoResult, 0)
WReq(path, data, had, before) ==
    [path |-> path, data |-> data, had |-> had, before |-> before]

TmpNameOf(k) == <<"tmp", Digits[k]>>
TmpNames == {TmpNameOf(k) : k \in 1..MaxTmp}

\* variant of TmpName: the record is written in place, under its final name
TmpNameInPlace(dir, path) == path

\* tempfile.NamedTemporaryFile(dir=path.parent): a name not in use there
TmpName(dir, path) ==
    TmpNameOf(CHOOSE k \in 1..MaxTmp :
                /\ TmpNameOf(k) \notin DOMAIN dir
                /\ \A m \in 1..(k - 1) : TmpNameOf(m) \in DOMAIN dir)

Remove(dir, name) == [n \in DOMAIN dir \ {name} |-> dir[n]]

InitRunIdle ==
    /\ variant = "none"
    /\ files = [i \in Batch |-> PlainFile]
    /\ script = [i \in Batch |-> <<>>]
    /\ Fresh(Batch)

InitW == InitRunIdle /\ InitW0 /\ InitV0

\* lines 35-36: the directory exists, the staging file is created empty
W_Open(path, data) ==
    /\ wpc = "idle"
    /\ \E n \in TmpNames : n \notin DOMAIN wdir
    /\ LET t == TmpName(wdir, path) IN
         /\ wtmp' = t
         /\ wreq' = WReq(path, data, path \in DOMAIN wdir,
                         IF path \in DOMAIN wdir THEN wdir[path] ELSE NoFile)
         /\ wdir' = Put(wdir, t, WFile(data, 0))
    /\ wpc' = "open"
    /\ UNCHANGED <<runVars, sVars>>

\* line 37: json.dump writes the next chunk into the staging file
W_Dump ==
    /\ wpc = "open"
    /\ wdir[wtmp].len < Chunks
    /\ wdir' = [wdir EXCEPT ![wtmp].len = @ + 1]
    /\ UNCHANGED <<wpc, wtmp, wreq>>
    /\ UNCHANGED <<runVars, sVars>>

\* line 37: json.dump or the write raises; the with block closes the staging
\* file (delete=False) and the exception leaves atomic_write
W_DumpRaise ==
    /\ wpc = "open"
    /\ wdir[wtmp].len < Chunks
    /\ wpc' = "idle"
    /\ UNCHANGED <<wdir, wtmp, wreq>>
    /\ UNCHANGED <<runVars, sVars>>

\* lines 38-39: the staging file is closed and renamed onto the path
W_Replace ==
    /\ wpc = "open"
    /\ wdir[wtmp].len = Chunks
    /\ wdir' = Put(Remove(wdir, wtmp), wreq.path, wdir[wtmp])
    /\ wpc' = "replaced"
    /\ UNCHANGED <<wtmp, wreq>>
    /\ UNCHANGED <<runVars, sVars>>

\* atomic_write returns
W_Return ==
    /\ wpc = "replaced"
    /\ wpc' = "idle"
    /\ UNCHANGED <<wdir, wtmp, wreq>>
    /\ UNCHANGED <<runVars, sVars>>

\* the process is killed
W_Crash ==
    /\ wpc \in {"idle", "open", "replaced"}
    /\ wpc' = "crashed"
    /\ UNCHANGED <<wdir, wtmp, wreq>>
    /\ UNCHANGED <<runVars, sVars>>

NextW == \/ \E path \in WPaths, data \in WData : W_Open(path, data)
         \/ W_Dump
         \/ W_DumpRaise
         \/ W_Replace
         \/ W_Return
         \/ W_Crash

SpecW == InitW /\ [][NextW]_vars

\* ---------------------------------------------- sortByAI.validate_sorting
\* a path is <<directory, file name>>. The folder holds FolderNames; the
\* remote sorter may name them under the scanned directory or, as its prompt
\* asks, under "mcq_json", and may name a file the folder does not hold.
FolderNames == {"a.json", "b.json"}
UnknownName == "z.json"
ScanDir == "root/mcq_json"
RemoteDirs == {ScanDir, "mcq_json"}
RemotePaths == RemoteDirs \X (FolderNames \cup {UnknownName})

\* Path(p).name
PathName(p) == p[2]

\* what read_json_file returns for a file of the folder (the fields
\* validate_sorting reads)
Info(n) == [filename |-> n, path |-> <<ScanDir, n>>]

\* the orders in which iteration can give the elements of the set S
Orderings(S) ==
    {q \in [1..Cardinality(S) -> S] :
       \A a, b \in 1..Cardinality(S) : a # b => q[a] # q[b]}

\* files_info: the files of the folder that could be read (at least one, or
\* main returns before sorting), in the order glob gave them
FilesInfos ==
    UNION {{[k \in DOMAIN q |-> Info(q[k])] : q \in Orderings(S)} :
             S \in (SUBSET FolderNames) \ {{}}}

\* the lists the remote sorter may return
SortedLists == UNION {[1..k -> RemotePaths] : k \in 0..MaxSorted}

\* {info["filename"]: info["path"] for info in files_info}
original_files(info) ==
    [n \in {info[k].filename : k \in DOMAIN info} |->
       info[CHOOSE k \in DOMAIN info :
              /\ info[k].filename = n
              /\ \A m \in DOMAIN info : info[m].filename = n => m <= k].path]

\* the first loop of validate_sorting: the known paths of sf, in its order
RECURSIVE Listed(_, _)
Listed(sf, orig) ==
    IF sf = <<>> THEN <<>>
    ELSE (IF PathName(Head(sf)) \in DOMAIN orig
          THEN <<orig[PathName(Head(sf))]>>
          ELSE <<>>)
         \o Listed(Tail(sf), orig)

\* the lists validate_sorting can return (the missing files are appended in
\* the iteration order of a set)
validate_sorting(sf, info) ==
    LET orig == original_files(info)
        v == Listed(sf, orig)
    IN IF Len(v) # Len(info)
       THEN LET missing == DOMAIN orig \ {PathName(v[k]) : k \in DOMAIN v}
            IN {v \o [k \in 1..Cardinality(missing) |-> orig[q[k]]] :
                  q \in Orderings(missing)}
       ELSE {v}

\* sortByAI.main, line 199: final_files = validate_sorting(sorted_files, files_info)
V_Validate ==
    /\ vpc = "ready"
    /\ validated' \in validate_sorting(sorted_files, files_info)
    /\ vpc' = "returned"
    /\ UNCHANGED <<sorted_files, files_info>>
    /\ UNCHANGED <<runVars, wVars>>

InitV ==
    /\ InitRunIdle
    /\ InitW0
    /\ vpc = "ready"
    /\ sorted_files \in SortedLists
    /\ files_info \in FilesInfos
    /\ validated = <<>>

NextV == V_Validate
SpecV == InitV /\ [][NextV]_vars

\* ==================================================================== claims
ErrorRec(r) == r.kind = "error"
Retrying == {i \in Items : pc[i] = "backoff"}

\* files and results whose identity is text (or absent): the ordinary case
OrdinaryItem(i) ==
    /\ files[i].t \in {"bad", "obj"}
    /\ files[i].disease.t # "num"
    /\ result[i].disease.t # "num"

\* the identity of an item: its file's disease field, else the file's stem
Identity(i) ==
    IF files[i].t = "obj" THEN PyOr(files[i].disease, Str(Stem(i))) ELSE Str(Stem(i))

\* name under which the record handed for item i was written
HandedName(i) == OutName(NameValue(handed[i][1], i).s)

\* C1: in every reachable state of a run of any of the three programs, the
\* number of remote calls in flight is at most the semaphore's bound.
C1_InFlightBounded == Cardinality(InFlight) <= MAX_CONCURRENT

\* C1 witness: the bound is reached while another item is in its backoff wait
C1_Witness ==
    /\ Cardinality(InFlight) = MAX_CONCURRENT
    /\ Retrying # {}

\* C2: in the thread and the async variant, an item with an ordinary input and
\* ordinary outcomes never has two records handed to atomic_write, and once
\* the loop has handled it exactly its one result record has been handed
\* over; an ordinary batch never makes the run abort.
C2_ExactlyOneResult ==
    variant \in {"thread", "async"} =>
      /\ \A i \in Items :
           /\ Len(handed[i]) <= 1
           /\ OrdinaryItem(i) =>
                /\ pc[i] = "collected" => handed[i] = <<result[i]>>
                /\ pc[i] # "collected" => handed[i] = <<>>
      /\ (\A i \in Items : OrdinaryItem(i)) => mainpc # "aborted"
      /\ (mainpc = "done" /\ \A i \in Items : OrdinaryItem(i)) =>
            \A i \in Items : Len(handed[i]) = 1

\* C2 witness: a finished async run of ordinary items, one unparsable file and
\* one item that met different kinds of responses, each handed over once
C2_Witness ==
    /\ variant = "async"
    /\ mainpc = "done"
    /\ \A i \in Items : OrdinaryItem(i) /\ Len(handed[i]) = 1
    /\ \E i \in Items : result[i].err = "read_error"
    /\ \E i \in Items : uni[i] = "mixed"

\* C3: an item whose every response is HTTP 500 is called exactly
\* 1 + MAX_RETRIES times and settles with an error result, in both variants.
C3_Always500 ==
    variant \in {"thread", "async"} =>
      \A i \in Items :
        uni[i] = "h5xx" =>
          /\ calls[i] <= 1 + MAX_RETRIES
          /\ Settled(i) =>
               /\ calls[i] = 1 + MAX_RETRIES
               /\ ErrorRec(result[i])
               /\ result[i].err = "http5xx"

\* C3 witness: an item of the async variant has settled after only 500s
C3_Witness ==
    /\ variant = "async"
    /\ \E i \in Items : uni[i] = "h5xx" /\ Settled(i) /\ calls[i] = 5

\* C4: in the thread variant an HTTP 4xx response is fatal: an item that has
\* only seen 4xx has settled with an error after exactly one call and no
\* backoff, and no call is issued after a 4xx response.
C4_Thread4xxFatal ==
    variant = "thread" =>
      \A i \in Items :
        /\ uni[i] = "h4xx" =>
             /\ Settled(i)
             /\ calls[i] = 1
             /\ attempt[i] = 0
             /\ ErrorRec(result[i])
        /\ result[i].err = "http4xx" =>
             /\ Settled(i)
             /\ ErrorRec(result[i])
             /\ calls[i] = attempt[i] + 1

\* C4 witness: a thread-variant item answered 400 has been collected
C4_Witness ==
    /\ variant = "thread"
    /\ \E i \in Items : uni[i] = "h4xx" /\ pc[i] = "collected" /\ Len(handed[i]) = 1

\* C5: in the async variant an HTTP 4xx response is fatal: an item that has
\* only seen 4xx has settled with an error after exactly one call.
C5_Async4xxFatal ==
    variant = "async" =>
      \A i \in Items :
        uni[i] = "h4xx" =>
          /\ Settled(i)
          /\ calls[i] = 1
          /\ ErrorRec(result[i])

\* C6: at every instant of atomic_write, a crash included, every output path
\* is absent or holds a complete record, and the path being written holds
\* what it held before the call or the complete new record.
C6_AtomicWrite ==
    /\ \A p \in WPaths : p \in DOMAIN wdir => wdir[p].len = Chunks
    /\ wreq.path # <<>> =>
         \/ ~wreq.had /\ wreq.path \notin DOMAIN wdir
         \/ wreq.had /\ wreq.path \in DOMAIN wdir /\ wdir[wreq.path] = wreq.before
         \/ wreq.path \in DOMAIN wdir /\ wdir[wreq.path] = WFile(wreq.data, Chunks)
    /\ wpc = "open" =>
         IF wreq.had
         THEN wreq.path \in DOMAIN wdir /\ wdir[wreq.path] = wreq.before
         ELSE wreq.path \notin DOMAIN wdir
    /\ wpc = "replaced" => wdir[wreq.path] = WFile(wreq.data, Chunks)

\* C6 witness: the process was killed while the staging file was partly
\* written, over a path that already held another record
C6_Witness ==
    /\ wpc = "crashed"
    /\ wtmp \in DOMAIN wdir
    /\ wdir[wtmp].len > 0
    /\ wdir[wtmp].len < Chunks
    /\ wreq.had
    /\ wreq.before.data # wreq.data

\* C7: when two items whose identities sanitize to the same output name have
\* both been saved under that name, the content of each of the two results is
\* present in some output artifact.
C7_CollisionKeepsBoth ==
    variant \in {"thread", "async"} =>
      \A i, j \in Items :
        ( /\ i # j
          /\ i \in saved /\ j \in saved
          /\ NameValue(handed[i][1], i) = Identity(i)
          /\ NameValue(handed[j][1], j) = Identity(j)
          /\ safe_filename(Identity(i).s) = safe_filename(Identity(j).s) ) =>
          /\ \E n \in DOMAIN fs : fs[n] = handed[i][1]
          /\ \E n \in DOMAIN fs : fs[n] = handed[j][1]

\* C8: in the thread variant an item whose worker raised never aborts the
\* run: main turns the exception into an error record, hands it to
\* atomic_write, the record is in place once saved (unless another item was
\* saved under the same name), and a finished run has handed over a record
\* for every item.
C8_ThreadExceptionContained ==
    variant = "thread" =>
      /\ \A i \in Items :
           result[i].kind = "exception" =>
             /\ abortedBy # i
             /\ pc[i] = "collected" => handed[i] = <<ErrRec(Null, i, "exception")>>
             /\ (i \in saved /\ \A j \in saved \ {i} : HandedName(j) # HandedName(i)) =>
                   /\ OutName(Stem(i)) \in DOMAIN fs
                   /\ fs[OutName(Stem(i))] = ErrRec(Null, i, "exception")
      /\ mainpc = "done" => \A j \in Items : Len(handed[j]) = 1

\* C8 witness: a finished thread run in which one worker raised and both its
\* error record and another item's structured result were saved
C8_Witness ==
    /\ variant = "thread"
    /\ mainpc = "done"
    /\ \E i, j \in Items :
         /\ result[i].kind = "exception" /\ i \in saved
         /\ result[j].kind = "structured" /\ j \in saved

\* C9: in the async variant an item whose task raised has, once the loop has
\* handled it, an error record handed to atomic_write.
C9_AsyncExceptionWritten ==
    variant = "async" =>
      \A i \in Items :
        (result[i].kind = "exception" /\ pc[i] = "collected") =>
          /\ Len(handed[i]) = 1
          /\ ErrorRec(handed[i][1])

\* C10: in the thread variant no failure while handling a settled item in the
\* collection loop aborts the run.
C10_ThreadCollectNeverAborts ==
    variant = "thread" => mainpc # "aborted"

\* C11: in the thread variant an item that is waiting out a backoff delay
\* holds no semaphore permit, so an item that has not yet called can take a
\* permit whenever fewer than MAX_CONCURRENT calls are in flight.
C11_ThreadBackoffHoldsNoSlot ==
    variant = "thread" =>
      /\ \A i \in Items : pc[i] = "backoff" => ~holds[i]
      /\ Cardinality(InFlight) < MAX_CONCURRENT => sem > 0

\* C12: in the async variant an item that is waiting out a backoff delay holds
\* no semaphore permit, whether the retry follows an HTTP 5xx or a transport
\* error.
C12_AsyncBackoffHoldsNoPermit ==
    variant = "async" =>
      \A i \in Items : pc[i] = "backoff" => ~holds[i]

\* C13: in the thread and the async variant the run reaches its "All files
\* processed" point only when every item has settled, has been handled by the
\* loop and has had its result handed to atomic_write.
C13_FinishAfterAllHanded ==
    (variant \in {"thread", "async"} /\ mainpc = "done") =>
      \A i \in Items : pc[i] = "collected" /\ Len(handed[i]) = 1

\* C16: a run that completes exits with status 0, and a run whose input
\* folder is missing exits with a non-zero status, with no remote call issued
\* and no output artifact written.
C16_ExitStatus ==
    /\ mainpc = "done" => ExitCode = 0
    /\ mainpc = "nofolder" =>
         /\ ExitCode # 0
         /\ \A i \in Items : calls[i] = 0
         /\ fs = EmptyDir

\* C17: in the thread and the async variant a malformed input file (not JSON,
\* or JSON that is not an object) causes no remote call, makes its worker
\* return an error record rather than raise, and never aborts the run.
C17_MalformedInputContained ==
    variant \in {"thread", "async"} =>
      \A i \in Items :
        files[i].t \in {"bad", "list"} =>
          /\ calls[i] = 0
          /\ result[i].kind # "exception"
          /\ Settled(i) => ErrorRec(result[i])
          /\ abortedBy # i

\* the degraded-success record of item i
RawRec(i) == Rec(Identity(i), Str(FileName(i)), "raw", "-")

\* C18: in the thread and the async variant, once an item's call was answered
\* 2xx with text that is not JSON the item has settled with the record
\* {disease, source_filename, raw_response} of its own identity, without an
\* error field; no call follows that response and nothing else is ever handed
\* to atomic_write for the item.
C18_RawTextIsDegradedSuccess ==
    variant \in {"thread", "async"} =>
      \A i \in Items :
        (last[i].c = "ok" /\ last[i].body = "raw") =>
          /\ Settled(i)
          /\ result[i] = RawRec(i)
          /\ ~ErrorRec(result[i])
          /\ calls[i] = attempt[i] + 1
          /\ handed[i] \in {<<>>, <<RawRec(i)>>}
          /\ (OrdinaryItem(i) /\ pc[i] = "collected") => handed[i] = <<RawRec(i)>>

\* C18 witness: an item answered with raw text after a retry has its raw
\* record saved in its output artifact
C18_Witness ==
    \E i \in Items :
      /\ last[i].body = "raw"
      /\ attempt[i] > 0
      /\ i \in saved
      /\ OutName(Stem(i)) \in DOMAIN fs
      /\ fs[OutName(Stem(i))] = RawRec(i)

\* C19: in the thread and the async variant, once an item's call was answered
\* 2xx with empty content or with a body that cannot be parsed the item has
\* settled with a record that is not an error record, and the call is not
\* retried.
C19_EmptyOrUnparseableIsSuccess ==
    variant \in {"thread", "async"} =>
      \A i \in Items :
        (last[i].c = "ok" /\ last[i].body \in {"empty", "badjson", "badctype"}) =>
          /\ Settled(i)
          /\ ~ErrorRec(result[i])
          /\ calls[i] = attempt[i] + 1

\* C20: in the thread and the async variant an item is never called more than
\* 1 + MAX_RETRIES times; 5xx and transport failures advance the same counter;
\* after such a failure the item is on its way to another call unless the
\* counter had reached MAX_RETRIES, and in that case it has settled with an
\* error record after exactly 1 + MAX_RETRIES calls.
C20_RetryBudget ==
    variant \in {"thread", "async"} =>
      \A i \in Items :
        /\ calls[i] <= 1 + MAX_RETRIES
        /\ attempt[i] <= MAX_RETRIES
        /\ calls[i] <= attempt[i] + 1
        /\ last[i].c \in {"h5xx", "transport"} =>
             IF Settled(i)
             THEN /\ calls[i] = 1 + MAX_RETRIES
                  /\ attempt[i] = MAX_RETRIES
                  /\ ErrorRec(result[i])
                  /\ result[i].err \in {"http5xx", "transport"}
             ELSE /\ pc[i] \in {"backoff", "acquire", "inflight"}
                  /\ attempt[i] >= 1
                  /\ calls[i] >= attempt[i]

\* C20 witness: a thread-variant item met both 5xx and transport failures and
\* settled on a transport failure at its fifth call
C20_Witness ==
    /\ variant = "thread"
    /\ \E i \in Items :
         /\ Settled(i)
         /\ uni[i] = "mixed"
         /\ last[i].c = "transport"
         /\ calls[i] = 1 + MAX_RETRIES

\* the process has ended and, unless the folder was missing, every item has
\* a terminal outcome
RunEnded ==
    /\ mainpc \in {"done", "aborted", "nofolder"}
    /\ mainpc # "nofolder" => \A i \in Items : Settled(i)

\* C14: under fair scheduling, with every remote call eventually answered,
\* every run of the thread and of the async variant eventually ends with
\* every item at a terminal outcome, whatever the responses are.
C14_Terminates == <>RunEnded

\* C14 witness: a run has ended after an item used up its retries on mixed
\* failures
C14_Witness ==
    /\ RunEnded
    /\ mainpc = "done"
    /\ \E i \in Items : uni[i] = "mixed" /\ calls[i] = 1 + MAX_RETRIES

\* C15: a finished run of the scripted three-item batch whose writes all
\* succeeded has items 1 and 2 recorded as succeeded and item 3 as failed,
\* exactly 3 output artifacts, and 1, 3 and 1 remote calls for the items.
C15_EndToEnd ==
    (Items = ScenarioItems /\ mainpc = "done" /\ saved = Items) =>
      /\ Cardinality({i \in Items : ~ErrorRec(handed[i][1])}) = 2
      /\ Cardinality({i \in Items : ErrorRec(handed[i][1])}) = 1
      /\ ~ErrorRec(handed[1][1]) /\ ~ErrorRec(handed[2][1]) /\ ErrorRec(handed[3][1])
      /\ Cardinality(DOMAIN fs) = 3
      /\ calls = <<1, 3, 1>>

\* C21: in the thread variant, while main is collecting, every item whose
\* worker has finished can be handled by the loop at once, whatever state the
\* other items are in.
C21_ThreadIncremental ==
    (variant = "thread" /\ mainpc = "collect") =>
      \A i \in Items : pc[i] = "done" => ENABLED T_Collect(i)

\* C21 witness: an item's artifact is saved while an item submitted before it
\* is still calling or backing off
C21_Witness ==
    /\ variant = "thread"
    /\ \E i, j \in Items :
         /\ j < i
         /\ i \in saved
         /\ HandedName(i) \in DOMAIN fs
         /\ pc[j] \in {"inflight", "backoff"}

\* C22: in the async variant, while the loop is collecting, every item whose
\* task has finished can be handled by the loop at once, whatever state the
\* other items are in.
C22_AsyncIncremental ==
    (variant = "async" /\ mainpc = "collect") =>
      \A i \in Items : pc[i] = "done" => ENABLED A_Collect(i)

\* the loop handed a record of item i to atomic_write and the write raised
WriteFailed(i) == pc[i] = "collected" /\ handed[i] # <<>> /\ i \notin saved

\* the step relation of C23
WriteFailureStep ==
    variant \in {"thread", "async"} =>
      \A i \in Items :
        /\ (~WriteFailed(i) /\ WriteFailed(i)') =>
             /\ mainpc' = mainpc
             /\ abortedBy' = abortedBy
             /\ calls' = calls
             /\ attempt' = attempt
             /\ result' = result
             /\ fs' = fs
             /\ \A j \in Items \ {i} : pc'[j] = pc[j] /\ handed'[j] = handed[j]
        /\ WriteFailed(i) =>
             /\ WriteFailed(i)'
             /\ calls'[i] = calls[i]
             /\ abortedBy' # i

\* C23: in the thread and the async variant the step in which atomic_write
\* raises for an item leaves main in its loop, issues no call, and changes no
\* result, no artifact and no other item; afterwards the item stays as it is
\* and no call is issued for it.
C23_WriteFailureContained == [][ WriteFailureStep ]_vars

\* C23 witness: in the async variant the write of the first item failed and
\* the result of the second item, handled after it, is saved
C23_Witness ==
    /\ variant = "async"
    /\ WriteFailed(1)
    /\ 2 \in saved
    /\ result[2].kind = "structured"
    /\ fs[HandedName(2)] = result[2]

\* the artifacts left when the records handed over are written in the order
\* of the items
RECURSIVE InOrderFs(_)
InOrderFs(n) ==
    IF n = 0 THEN EmptyDir
    ELSE Put(InOrderFs(n - 1), HandedName(n), handed[n][1])

\* C24: a finished thread run whose writes all succeeded leaves the same
\* artifacts as the run that handles the same results in the order of the
\* items.
C24_OrderIndependent ==
    (variant = "thread" /\ mainpc = "done" /\ saved = Items) =>
      fs = InOrderFs(Cardinality(Items))

CancelStep ==
    /\ mainpc = "cancelled" => calls' = calls /\ fs' = fs
    /\ (mainpc = "collect" /\ mainpc' = "cancelled") =>
         \A i \in Items : pc[i] = "inflight" => pc'[i] = "inflight"

\* C26: once the run is interrupted no remote call is issued and no artifact
\* changes, and the interruption itself leaves the calls in flight running.
C26_CancelStopsAttempts == [][ CancelStep ]_vars

\* the step relation of C27
AbsorbingStep ==
    variant \in {"thread", "async"} =>
      \A i \in Items :
        /\ Settled(i) =>
             /\ Settled(i)'
             /\ calls'[i] = calls[i]
             /\ attempt'[i] = attempt[i]
             /\ result'[i] = result[i]
        /\ (last'[i].c = "ok" /\ last'[i].body = "obj") =>
             /\ Settled(i)'
             /\ result'[i].kind = "structured"
             /\ calls'[i] = attempt'[i] + 1
             /\ Len(slept'[i]) = attempt'[i]

\* C27: in the thread and the async variant a settled item stays settled with
\* the same result and gets no further call; a 2xx answer carrying a JSON
\* object settles the item at once with that structured result, after one
\* call more than the number of its backoffs.
C27_TerminalAbsorbing == [][ AbsorbingStep ]_vars

\* C27 witness: an item failed twice, then got a result on its third call
C27_Witness ==
    \E i \in Items :
      /\ last[i].c = "ok" /\ last[i].body = "obj"
      /\ pc[i] = "collected"
      /\ attempt[i] = 2
      /\ calls[i] = 3

\* C28: in the thread and the async variant an item has slept once per retry,
\* the k-th delay is BACKOFF_FACTOR^k + RATE_LIMIT_SECONDS seconds whichever
\* failure caused the retry, and the delays increase strictly.
C28_BackoffDelays ==
    variant \in {"thread", "async"} =>
      \A i \in Items :
        /\ Len(slept[i]) = attempt[i]
        /\ \A k \in 1..Len(slept[i]) :
             /\ slept[i][k] * (BACKOFF_DEN ^ k) * RATE_DEN
                  = (BACKOFF_NUM ^ k * RATE_DEN + RATE_NUM * BACKOFF_DEN ^ k) * DelayDen
             /\ k > 1 => slept[i][k] > slept[i][k - 1]

\* C28 witness: a thread-variant item slept MAX_RETRIES times, after 5xx
\* answers and after transport errors
C28_Witness ==
    /\ variant = "thread"
    /\ \E i \in Items :
         /\ Len(slept[i]) = MAX_RETRIES
         /\ uni[i] = "mixed"
         /\ last[i].c = "transport"

\* the retry loop's step for the running variant
OwnStep(i) ==
    IF variant = "thread" THEN T_Step(attempt[i], last[i]) ELSE A_Step(attempt[i], last[i])

\* the result of a settled item as its own file and its own last answer give it
OwnResult(i) ==
    IF OwnStep(i).act = "return"
    THEN BuildResult(Identity(i), i, last[i])
    ELSE ErrRec(Identity(i), i, OwnStep(i).err)

\* the step relation of C29
PerItemStep ==
    variant \in {"thread", "async"} =>
      \A i \in Items :
        /\ ( \/ calls'[i] # calls[i]
             \/ attempt'[i] # attempt[i]
             \/ last'[i] # last[i]
             \/ pc[i] \in {"acquire", "inflight", "backoff"} /\ pc'[i] # pc[i] ) =>
             \A j \in Items \ {i} :
               /\ attempt'[j] = attempt[j]
               /\ calls'[j] = calls[j]
               /\ last'[j] = last[j]
               /\ slept'[j] = slept[j]
               /\ result'[j] = result[j]
        /\ (Settled(i)' /\ calls'[i] > 0) => result'[i] = OwnResult(i)'

\* C29: in the thread and the async variant a step in which an item calls,
\* gets an answer, retries or backs off changes no counter, delay, answer or
\* result of any other item, and the result of an item that settled after a
\* call is determined by its own file, counter and last answer.
C29_RetryStatePerItem == [][ PerItemStep ]_vars

\* C29 witness: an item is in its third backoff while another item has
\* settled after a single call
C29_Witness ==
    \E i, j \in Items :
      /\ pc[i] = "backoff" /\ attempt[i] = 3
      /\ Settled(j) /\ attempt[j] = 0 /\ calls[j] = 1

\* the step relation of C30
AgreeStep ==
    variant \in {"thread", "async"} =>
      \A i \in Items :
        /\ (pc[i] = "queued" /\ pc'[i] # "queued") =>
             T_Load(files[i], i) = A_Load(files[i], i)
        /\ (pc[i] = "inflight" /\ pc'[i] # "inflight") =>
             /\ T_Step(attempt[i], last'[i]).act = A_Step(attempt[i], last'[i]).act
             /\ T_Step(attempt[i], last'[i]).attempt = A_Step(attempt[i], last'[i]).attempt

\* C30: at every step in which a worker of either variant leaves its loading
\* code or gets an answer, the loading code and the retry loop of the other
\* variant would do the same on the same file, counter and answer.
C30_VariantsAgree == [][ AgreeStep ]_vars

\* C31: in all three programs the free permits and the permits held by items
\* always add up to the N the semaphore was created with, with the free
\* permits in 0..N; only an item that is in a call or in a sleep inside the
\* "with" block holds a permit, so an item that returned, raised or, in the
\* async variant, left the block to retry holds none; and when the run
\* finishes all N permits are free.
C31_PermitsConserved ==
    /\ sem \in 0..MAX_CONCURRENT
    /\ Cardinality({i \in Items : holds[i]}) \in 0..MAX_CONCURRENT
    /\ Permits = MAX_CONCURRENT
    /\ \A i \in Items :
         /\ holds[i] => pc[i] \in {"inflight", "backoff"}
         /\ pc[i] = "inflight" => holds[i]
         /\ (pc[i] = "backoff" /\ variant = "thread") => holds[i]
    /\ mainpc = "done" => sem = MAX_CONCURRENT

\* C31 witness: a run finished with every permit free after one item raised
\* inside the "with" block and another returned after retrying
C31_Witness ==
    /\ mainpc = "done"
    /\ sem = MAX_CONCURRENT
    /\ \E i, j \in Items :
         /\ result[i].err = "http4xx" /\ calls[i] = 1
         /\ attempt[j] > 0 /\ result[j].kind = "structured"

\* the step relation of C38
AttemptStep ==
    variant \in {"thread", "async"} =>
      \A i \in Items :
        /\ attempt'[i] \in 0..MAX_RETRIES
        /\ \/ attempt'[i] = attempt[i]
           \/ /\ attempt'[i] = attempt[i] + 1
              /\ attempt[i] < MAX_RETRIES
              /\ pc[i] = "inflight" /\ pc'[i] = "backoff"
        /\ (pc[i] = "inflight" /\ pc'[i] # "inflight") =>
             \/ pc'[i] = "done"
             \/ pc'[i] = "backoff" /\ attempt'[i] = attempt[i] + 1
        /\ (pc[i] = "backoff" /\ pc'[i] # "backoff") =>
             pc'[i] \in {"inflight", "acquire"}
        /\ result'[i].err # "max_retries"

\* C38: in the thread and the async variant the attempt counter of every
\* item stays in 0..MAX_RETRIES and changes only by an increment of one made
\* while attempt < MAX_RETRIES; an iteration of the loop ends with the
\* worker done (a return or a raise) or with that increment and a sleep;
\* after a sleep the loop condition holds and the loop goes on, so the
\* function never ends by its loop condition: no "Max retries exceeded" and
\* no None returned after a sleep.
C38_AttemptCounter == [][ AttemptStep ]_vars

\* C38 witness: an item of the async variant sleeps after the last increment
\* the guard allows
C38_Witness ==
    /\ variant = "async"
    /\ \E i \in Items :
         /\ pc[i] = "backoff"
         /\ attempt[i] = MAX_RETRIES
         /\ Len(slept[i]) = MAX_RETRIES

\* C33: whenever no atomic_write call is running (the last one returned or
\* raised), no staging file is in the output directory.
C33_NoStagingFileLeft ==
    wpc = "idle" => \A n \in TmpNames : n \notin DOMAIN wdir

\* C34: every record handed to the writer by the thread or the async variant
\* carries the name of the input file of its item as its source_filename.
C34_TraceabilityFields ==
    variant \in {"thread", "async"} =>
      \A i \in Items :
        \A k \in 1..Len(handed[i]) :
          handed[i][k].source = Str(FileName(i))

\* C35: in proofread_mcqs.py no MCQ's worker raises and the gather is never
\* aborted: when every worker has ended, each of them has returned a result.
C35_ProofreadFailureContained ==
    variant = "proofread" =>
      /\ mainpc # "aborted"
      /\ \A i \in Items : pc[i] = "done" => result[i].kind # "exception"

\* the entries C36 expects in the report: the file names of the first k MCQs
\* whose result lists errors
RECURSIVE FaultyUpTo(_)
FaultyUpTo(k) ==
    IF k = 0 THEN <<>>
    ELSE FaultyUpTo(k - 1)
         \o (IF result[k].kind = "faulty" THEN FileName(k) ELSE <<>>)

\* C36: in proofread_mcqs.py no MCQ is sent more than once and none is
\* retried; the result of worker i carries the file name of MCQ i; and when
\* main has finished, every MCQ was sent exactly once, the report file exists
\* if and only if some result lists errors, and it then holds the entries of
\* exactly those results, in input order.
C36_ProofreadReport ==
    variant = "proofread" =>
      /\ \A i \in Items :
           /\ calls[i] <= 1
           /\ attempt[i] = 0
           /\ (Settled(i) /\ result[i].kind # "exception") =>
                result[i].source = Str(FileName(i))
      /\ mainpc = "done" =>
           /\ \A i \in Items : calls[i] = 1
           /\ ReportName \in DOMAIN fs <=>
                \E i \in Items : result[i].kind = "faulty"
           /\ ReportName \in DOMAIN fs =>
                fs[ReportName].source = List(FaultyUpTo(NumItems))
           /\ \A i \in Items :
                handed[i] = IF result[i].kind = "faulty" THEN <<result[i]>> ELSE <<>>

\* C36 witness: the report was written for a batch in which the first MCQ
\* has no error and a later one's call failed
C36_Witness ==
    /\ variant = "proofread"
    /\ mainpc = "done"
    /\ ReportName \in DOMAIN fs
    /\ result[1].kind = "clean"
    /\ \E i \in Items : result[i].err = "call_failed"

\* C37: the list validate_sorting returns holds the path of every file of
\* files_info.
C37_ValidateIncludesAll ==
    vpc = "returned" =>
      \A k \in DOMAIN files_info :
        \E m \in DOMAIN validated : validated[m] = files_info[k].path

\* C32: the name under which a record is handed to atomic_write is the name
\* of no input file of the batch.
C32_OutputsApartFromInputs ==
    variant \in {"thread", "async"} =>
      \A i \in Items :
        handed[i] # <<>> => \A j \in Items : HandedName(i) # FileName(j)

====
